---- MODULE Spec2Model ----
(***************************************************************************)
(* Model of curamentorworker: the poll loop of __main__.main, the          *)
(* per-message pipeline of VectorizationProcessor.process_message, the     *)
(* FIFOQueue wrapper and the publication_vectors table it writes to.       *)
(***************************************************************************)
EXTENDS Integers, Sequences, FiniteSets, TLC

(***************************************************************************)
(* Bounds of the model.                                                    *)
(***************************************************************************)
MaxDeliveries == 2  \* deliveries the queue makes in one run of the model
ChunkSize == 2      \* chunk size used in place of _EMBEDDING_CHUNK_SIZE
max_messages == 2   \* Settings.max_messages: the largest batch of a receive

\* two worker processes drain the same queue
Workers == {1, 2}
Messages == 1..2

None == "None"
Nul == "NUL"

(***************************************************************************)
(* Message bodies.  A body is either text that json.loads rejects or a     *)
(* JSON object, modelled as a function from the fields present to values.  *)
(***************************************************************************)
Payload(bucket, key) == [bucket |-> bucket, key |-> key]

NotJson == [json |-> FALSE, payload |-> << >>]
NoKey == [json |-> TRUE, payload |-> [bucket |-> "b"]]
EmptyKey == [json |-> TRUE, payload |-> Payload("b", "")]
NoBucket == [json |-> TRUE, payload |-> [key |-> "a.pdf"]]
GoodA == [json |-> TRUE, payload |-> Payload("b", "a.pdf")]
GoodE == [json |-> TRUE, payload |-> Payload("b", "e.pdf")]
GoodN == [json |-> TRUE, payload |-> Payload("b", "n.bin")]

Bodies == {NotJson, NoKey, EmptyKey, NoBucket, GoodA, GoodE, GoodN}

(***************************************************************************)
(* The blob store: the objects the messages refer to.  a.pdf has text of   *)
(* more than one chunk, e.pdf is a PDF without text, n.bin is not a PDF.   *)
(***************************************************************************)
PdfMagic == <<"%", "P", "D", "F", "-">>

Objects ==
  [k \in {"a.pdf", "e.pdf", "n.bin"} |->
     CASE k = "a.pdf" -> [header |-> PdfMagic, text |-> <<"x", Nul, "y", "z">>]
       [] k = "e.pdf" -> [header |-> PdfMagic, text |-> << >>]
       [] k = "n.bin" -> [header |-> <<"P", "K", "3", "4", "0">>, text |-> << >>]]

(***************************************************************************)
(* Pure helpers of the processor.                                          *)
(***************************************************************************)
Min(a, b) == IF a < b THEN a ELSE b

\* dict.get(field): the value, or None when the field is absent
Get(payload, field) == IF field \in DOMAIN payload THEN payload[field] ELSE None

\* Python truthiness of an optional string
Truthy(v) == v # None /\ v # ""

\* a or b
OrElse(a, b) == IF Truthy(a) THEN a ELSE b

\* header.startswith(b"%PDF-")
StartsWith(s, prefix) ==
  /\ Len(s) >= Len(prefix)
  /\ SubSeq(s, 1, Len(prefix)) = prefix

\* _ensure_pdf: TRUE when the signature is accepted, FALSE when ValueError
AcceptAnySignature(key) == TRUE

_ensure_pdf(key) == StartsWith(SubSeq(Objects[key].header, 1, Min(5, Len(Objects[key].header))), PdfMagic)

\* the slices of full size only: a shorter last slice is left out
RECURSIVE SlicesFullOnly(_, _, _)
SlicesFullOnly(text, i, chunk_size) ==
  IF i + chunk_size > Len(text) THEN << >>
  ELSE <<SubSeq(text, i + 1, i + chunk_size)>>
         \o SlicesFullOnly(text, i + chunk_size, chunk_size)

\* [text[i : i + chunk_size] for i in range(0, len(text), chunk_size)]
RECURSIVE Slices(_, _, _)
Slices(text, i, chunk_size) ==
  IF i >= Len(text) THEN << >>
  ELSE <<SubSeq(text, i + 1, Min(i + chunk_size, Len(text)))>>
         \o Slices(text, i + chunk_size, chunk_size)

\* without the guard for empty text, and with one chunk for it
ChunkTextNoGuard(text, chunk_size) ==
  IF text = << >> THEN << << >> >> ELSE Slices(text, 0, chunk_size)

_chunk_text(text, chunk_size) ==
  IF text = << >> THEN << >> ELSE Slices(text, 0, chunk_size)

\* text.replace("\x00", "")
_sanitize_text(text) == SelectSeq(text, LAMBDA c : c # Nul)

\* main: "if processed and receipt_handle"
ShouldDeleteInverted(processed, receipt_handle) ==
  ~processed /\ receipt_handle # 0

ShouldDeleteAlways(processed, receipt_handle) == receipt_handle # 0

ShouldDelete(processed, receipt_handle) == processed /\ receipt_handle # 0

\* _vector_exists: SELECT 1 FROM publication_vectors WHERE key = %s
NeverExists(rows, key) == FALSE

_vector_exists(rows, key) == \E r \in rows : r.key = key

(***************************************************************************)
(* _average_embeddings.  The embeddings are vectors of naturals; a         *)
(* quotient value / count is kept exact, as a fraction in lowest terms.    *)
(***************************************************************************)
RECURSIVE Gcd(_, _)
Gcd(a, b) == IF b = 0 THEN a ELSE Gcd(b, a % b)

\* value / count, count > 0
Quot(value, count) ==
  LET g == Gcd(value, count)
  IN  [num |-> value \div g, den |-> count \div g]

\* the loop of lines 151-155 from the k-th vector on: the totals, or the
\* ValueError of the first vector whose length differs
RECURSIVE Accumulate(_, _, _, _)
Accumulate(embeddings, k, length, totals) ==
  IF k > Len(embeddings) THEN [ok |-> TRUE, totals |-> totals]
  ELSE IF Len(embeddings[k]) # length THEN [ok |-> FALSE, totals |-> << >>]
  ELSE Accumulate(embeddings, k + 1, length,
                  [idx \in 1..length |-> totals[idx] + embeddings[k][idx]])

\* the totals divided by the length of the vectors instead of their number
AverageByLength(embeddings) ==
  IF embeddings = << >> THEN [ok |-> TRUE, value |-> << >>]
  ELSE LET length == Len(embeddings[1])
           acc == Accumulate(embeddings, 1, length, [idx \in 1..length |-> 0])
       IN  IF ~acc.ok THEN [ok |-> FALSE, value |-> << >>]
           ELSE [ok |-> TRUE,
                 value |-> [idx \in 1..length |-> Quot(acc.totals[idx], length)]]

\* the result [ok |-> TRUE, value |-> the mean], or ok |-> FALSE for ValueError
_average_embeddings(embeddings) ==
  IF embeddings = << >> THEN [ok |-> TRUE, value |-> << >>]
  ELSE LET length == Len(embeddings[1])
           acc == Accumulate(embeddings, 1, length, [idx \in 1..length |-> 0])
           count == Len(embeddings)
       IN  IF ~acc.ok THEN [ok |-> FALSE, value |-> << >>]
           ELSE [ok |-> TRUE,
                 value |-> [idx \in 1..length |-> Quot(acc.totals[idx], count)]]

(***************************************************************************)
(* s3_utils.apply_s3_prefix.  Strings are sequences of characters.         *)
(***************************************************************************)
Slash == "/"

\* removes one leading "/" only
LStripOne(s) == IF s # << >> /\ s[1] = Slash THEN Tail(s) ELSE s

\* s.lstrip("/")
RECURSIVE LStrip(_)
LStrip(s) == IF s # << >> /\ s[1] = Slash THEN LStrip(Tail(s)) ELSE s

\* s.rstrip("/")
RECURSIVE RStrip(_)
RStrip(s) ==
  IF s # << >> /\ s[Len(s)] = Slash THEN RStrip(SubSeq(s, 1, Len(s) - 1)) ELSE s

\* s.strip("/")
Strip(s) == LStrip(RStrip(s))

\* the prefix is joined to every key, also to one that carries it already
ApplyAlwaysJoin(prefix, key) ==
  LET normalized_prefix == Strip(prefix)
      normalized_key == LStrip(key)
  IN  IF normalized_prefix = << >> THEN normalized_key
      ELSE IF normalized_key = << >> THEN normalized_prefix
      ELSE normalized_prefix \o <<Slash>> \o normalized_key

apply_s3_prefix(prefix, key) ==
  LET normalized_prefix == Strip(prefix)
      normalized_key == LStrip(key)
  IN  IF normalized_prefix = << >> THEN normalized_key
      ELSE IF normalized_key = << >> THEN normalized_prefix
      ELSE IF \/ normalized_key = normalized_prefix
              \/ StartsWith(normalized_key, normalized_prefix \o <<Slash>>)
        THEN normalized_key
      ELSE normalized_prefix \o <<Slash>> \o normalized_key

(***************************************************************************)
(* State.                                                                  *)
(***************************************************************************)
VARIABLES
  s3_bucket_name, \* Settings.s3_bucket_name, the fallback bucket ("" when unset)
  uniqueIndex,    \* whether publication_vectors is unique on (key, chunk_index)
  bodies,         \* queue: message -> Body
  msgState,       \* queue: message -> "visible" | "inflight" | "deleted"
  lease,          \* queue: message -> the delivery whose receipt handle is valid, 0 if none
  deliveryMsg,    \* sequence of deliveries made so far: delivery -> message
  pc,             \* worker -> position in main / process_message
  batch,          \* worker -> the deliveries of `messages` not handled yet
  cur,            \* worker -> the delivery being handled (`message`), 0 if none
  processed,      \* worker -> the flag `processed` of main
  chunks,         \* worker -> `chunks` of _vectorize
  payloads,       \* worker -> `payloads` of _vectorize / `chunk_payloads`
  pos,            \* worker -> number of chunk_payloads inserted by _persist_document
  tx,             \* worker -> rows inserted in the worker's open transaction
  store,          \* committed rows of publication_vectors
  files,          \* temporary files that exist, named by the delivery that made them
  status,         \* worker -> how process_message ended for `message`
  ack,            \* worker -> what queue.delete_message did for `message`
  log,            \* worker -> the events logged while handling `message`
  call            \* the last call of a helper function: its arguments and result

qvars == <<bodies, msgState, lease, deliveryMsg>>
wvars == <<pc, batch, cur, processed, chunks, payloads, pos, tx>>
gvars == <<status, ack, log>>
cvars == <<s3_bucket_name, uniqueIndex, call>>
vars == <<s3_bucket_name, uniqueIndex, bodies, msgState, lease, deliveryMsg,
          pc, batch, cur, processed, chunks, payloads, pos, tx, store, files,
          status, ack, log, call>>

\* no helper function has been called
NoCall == [fn |-> "none"]

BodyOf(d) == bodies[deliveryMsg[d]]
PayloadOf(d) == BodyOf(d).payload
KeyOf(d) == PayloadOf(d).key

Init ==
  /\ bodies \in {[m \in Messages |-> IF m = 1 THEN b ELSE GoodA] : b \in Bodies}
  \* the fallback bucket is configured or left at its default, ""; the
  \* choice is enumerated for the queues in which some body relies on it
  /\ s3_bucket_name \in
       IF \E m \in Messages : bodies[m] = NoBucket
         THEN {"", "fallback"} ELSE {""}
  /\ uniqueIndex \in BOOLEAN
  /\ msgState = [m \in Messages |-> "visible"]
  /\ lease = [m \in Messages |-> 0]
  /\ deliveryMsg = << >>
  /\ pc = [w \in Workers |-> "poll"]
  /\ batch = [w \in Workers |-> << >>]
  /\ cur = [w \in Workers |-> 0]
  /\ processed = [w \in Workers |-> FALSE]
  /\ chunks = [w \in Workers |-> << >>]
  /\ payloads = [w \in Workers |-> << >>]
  /\ pos = [w \in Workers |-> 0]
  /\ tx = [w \in Workers |-> {}]
  /\ store = {}
  /\ files = {}
  /\ status = [w \in Workers |-> "none"]
  /\ ack = [w \in Workers |-> "none"]
  /\ log = [w \in Workers |-> {}]
  /\ call = NoCall

(***************************************************************************)
(* The queue (FIFOQueue over SQS).                                         *)
(***************************************************************************)
Visible == {m \in Messages : msgState[m] = "visible"}

RECURSIVE SetToSeq(_)
SetToSeq(S) ==
  IF S = {} THEN << >>
  ELSE LET m == CHOOSE x \in S : \A y \in S : x <= y
       IN  <<m>> \o SetToSeq(S \ {m})

\* the visibility timeout of an in-flight message runs out: the message
\* becomes visible again and its receipt handle is no longer valid
Expire(m) ==
  /\ msgState[m] = "inflight"
  /\ msgState' = [msgState EXCEPT ![m] = "visible"]
  /\ lease' = [lease EXCEPT ![m] = 0]
  /\ UNCHANGED <<bodies, deliveryMsg, wvars, gvars, cvars, store, files>>

\* queue.receive_messages() returns a non-empty batch
Receive(w) ==
  /\ pc[w] = "poll"
  /\ \E n \in 1..max_messages :
       /\ n <= Cardinality(Visible)
       /\ Len(deliveryMsg) + n <= MaxDeliveries
       /\ LET got == SubSeq(SetToSeq(Visible), 1, n)
              first == Len(deliveryMsg)
          IN  /\ deliveryMsg' = deliveryMsg \o got
              /\ msgState' = [m \in Messages |->
                                IF \E i \in 1..n : got[i] = m
                                  THEN "inflight" ELSE msgState[m]]
              /\ lease' = [m \in Messages |->
                             IF \E i \in 1..n : got[i] = m
                               THEN first + (CHOOSE i \in 1..n : got[i] = m)
                               ELSE lease[m]]
              /\ batch' = [batch EXCEPT ![w] = [i \in 1..n |-> first + i]]
  /\ pc' = [pc EXCEPT ![w] = "for"]
  /\ UNCHANGED <<bodies, cur, processed, chunks, payloads, pos, tx, gvars,
                 cvars, store, files>>

\* queue.receive_messages() returns no message: main sleeps and polls again
ReceiveEmpty(w) ==
  /\ pc[w] = "poll"
  /\ pc' = [pc EXCEPT ![w] = "sleep"]
  /\ UNCHANGED <<qvars, batch, cur, processed, chunks, payloads, pos, tx,
                 gvars, cvars, store, files>>

Sleep(w) ==
  /\ pc[w] = "sleep"
  /\ pc' = [pc EXCEPT ![w] = "poll"]
  /\ UNCHANGED <<qvars, batch, cur, processed, chunks, payloads, pos, tx,
                 gvars, cvars, store, files>>

\* receive_message raises (transport error): nothing in main catches it
ReceiveTransportError(w) ==
  /\ pc[w] = "poll"
  /\ pc' = [pc EXCEPT ![w] = "crashed"]
  /\ UNCHANGED <<qvars, batch, cur, processed, chunks, payloads, pos, tx,
                 gvars, cvars, store, files>>

\* for message in messages: ... processed = False
NextMessage(w) ==
  /\ pc[w] = "for"
  /\ IF batch[w] = << >>
       THEN /\ pc' = [pc EXCEPT ![w] = "poll"]
            /\ UNCHANGED <<batch, cur, processed>>
            /\ UNCHANGED gvars
       ELSE /\ pc' = [pc EXCEPT ![w] = "decode"]
            /\ cur' = [cur EXCEPT ![w] = Head(batch[w])]
            /\ batch' = [batch EXCEPT ![w] = Tail(batch[w])]
            /\ processed' = [processed EXCEPT ![w] = FALSE]
            /\ status' = [status EXCEPT ![w] = "pending"]
            /\ ack' = [ack EXCEPT ![w] = "none"]
            /\ log' = [log EXCEPT ![w] = {}]
  /\ UNCHANGED <<qvars, chunks, payloads, pos, tx, cvars, store, files>>

(***************************************************************************)
(* process_message, as called from the try block of main.                  *)
(***************************************************************************)
\* process_message returns: main sets processed = True and enters finally
Returns(w, how) ==
  /\ pc' = [pc EXCEPT ![w] = "finally"]
  /\ processed' = [processed EXCEPT ![w] = TRUE]
  /\ status' = [status EXCEPT ![w] = how]
  /\ log' = [log EXCEPT ![w] = @ \cup {how}]
  /\ chunks' = [chunks EXCEPT ![w] = << >>]
  /\ payloads' = [payloads EXCEPT ![w] = << >>]
  /\ pos' = [pos EXCEPT ![w] = 0]
  /\ UNCHANGED ack

\* what is kept of an error: a violation of the unique index of the table
\* is told apart from every other error
ErrorStatus(error) == IF error = "UniqueViolation" THEN "conflict" ELSE "raised"

\* process_message raises an Exception, but the flag is set all the same
RaisesProcessed(w, error) ==
  /\ pc' = [pc EXCEPT ![w] = "finally"]
  /\ status' = [status EXCEPT ![w] = ErrorStatus(error)]
  /\ log' = [log EXCEPT ![w] = @ \cup {"failed"}]
  /\ chunks' = [chunks EXCEPT ![w] = << >>]
  /\ payloads' = [payloads EXCEPT ![w] = << >>]
  /\ pos' = [pos EXCEPT ![w] = 0]
  /\ processed' = [processed EXCEPT ![w] = TRUE]
  /\ UNCHANGED ack

\* process_message raises an Exception and nothing in main catches it
RaisesUncaught(w, error) ==
  /\ pc' = [pc EXCEPT ![w] = "crashed"]
  /\ status' = [status EXCEPT ![w] = ErrorStatus(error)]
  /\ log' = [log EXCEPT ![w] = @ \cup {"failed"}]
  /\ chunks' = [chunks EXCEPT ![w] = << >>]
  /\ payloads' = [payloads EXCEPT ![w] = << >>]
  /\ pos' = [pos EXCEPT ![w] = 0]
  /\ UNCHANGED <<processed, ack>>

\* process_message raises an Exception: main logs it and enters finally
Raises(w, error) ==
  /\ pc' = [pc EXCEPT ![w] = "finally"]
  /\ status' = [status EXCEPT ![w] = ErrorStatus(error)]
  /\ log' = [log EXCEPT ![w] = @ \cup {"failed"}]
  /\ chunks' = [chunks EXCEPT ![w] = << >>]
  /\ payloads' = [payloads EXCEPT ![w] = << >>]
  /\ pos' = [pos EXCEPT ![w] = 0]
  /\ UNCHANGED <<processed, ack>>

\* process_message goes on to its next step
Goes(w, label) ==
  /\ pc' = [pc EXCEPT ![w] = label]
  /\ UNCHANGED <<processed, gvars>>

\* lines 50-56: decode the body, look up bucket and key
Decode(w) ==
  /\ pc[w] = "decode"
  /\ LET body == BodyOf(cur[w])
         payload == body.payload
         bucket == OrElse(Get(payload, "bucket"), s3_bucket_name)
     IN  IF ~body.json
           THEN Raises(w, "JSONDecodeError")
         ELSE IF "key" \notin DOMAIN payload
           THEN Raises(w, "KeyError")
         ELSE IF ~Truthy(bucket) \/ ~Truthy(payload["key"])
           THEN Returns(w, "missing")
         ELSE Goes(w, "gate") /\ UNCHANGED <<chunks, payloads, pos>>
  /\ UNCHANGED <<qvars, batch, cur, tx, cvars, store, files>>

\* a gate that skips only a message whose body is the one that was stored
GateComparesBody(w) ==
  /\ pc[w] = "gate"
  /\ LET same == {r \in store : r.key = KeyOf(cur[w])
                                 /\ r.metadata = PayloadOf(cur[w])}
     IN  \/ Raises(w, "OperationalError")
         \/ /\ same # {}
            /\ Returns(w, "skipped")
         \/ /\ same = {}
            /\ Goes(w, "download")
            /\ UNCHANGED <<chunks, payloads, pos>>
  /\ UNCHANGED <<qvars, batch, cur, tx, cvars, store, files>>

\* lines 58-60: the idempotency gate
Gate(w) ==
  /\ pc[w] = "gate"
  /\ \/ Raises(w, "OperationalError")
     \/ /\ _vector_exists(store, KeyOf(cur[w]))
        /\ Returns(w, "skipped")
     \/ /\ ~_vector_exists(store, KeyOf(cur[w]))
        /\ Goes(w, "download")
        /\ UNCHANGED <<chunks, payloads, pos>>
  /\ UNCHANGED <<qvars, batch, cur, tx, cvars, store, files>>

\* _download: the temporary file is created, then filled from the bucket
Download(w) ==
  /\ pc[w] = "download"
  /\ files' = files \cup {cur[w]}
  /\ \/ Raises(w, "ClientError")
     \/ Goes(w, "ensure_pdf") /\ UNCHANGED <<chunks, payloads, pos>>
  /\ UNCHANGED <<qvars, batch, cur, tx, cvars, store>>

\* _vectorize, line 89: the signature check
EnsurePdf(w) ==
  /\ pc[w] = "ensure_pdf"
  /\ IF _ensure_pdf(KeyOf(cur[w]))
       THEN Goes(w, "extract") /\ UNCHANGED <<chunks, payloads, pos>>
       ELSE Raises(w, "ValueError")
  /\ UNCHANGED <<qvars, batch, cur, tx, cvars, store, files>>

\* _vectorize, lines 102-106, and lines 65-68 of process_message: extract
\* and chunk the text; without chunks the file is removed and the call returns
Extract(w) ==
  /\ pc[w] = "extract"
  /\ \/ /\ Raises(w, "ExtractionError")
        /\ UNCHANGED files
     \/ LET text == Objects[KeyOf(cur[w])].text
            cs == _chunk_text(text, ChunkSize)
        IN  IF cs = << >>
              THEN /\ files' = files \ {cur[w]}
                   /\ Returns(w, "empty")
              ELSE /\ chunks' = [chunks EXCEPT ![w] = cs]
                   /\ Goes(w, "embed")
                   /\ UNCHANGED <<payloads, pos, files>>
  /\ UNCHANGED <<qvars, batch, cur, tx, cvars, store>>

\* _vectorize, lines 107-131: one embedding call per chunk, in order
Embed(w) ==
  /\ pc[w] = "embed"
  /\ LET i == Len(payloads[w]) + 1
     IN  \/ Raises(w, "EmbeddingError")
         \/ /\ payloads' = [payloads EXCEPT ![w] = Append(@,
                  [chunk_index |-> i,
                   chunk_text |-> _sanitize_text(chunks[w][i]),
                   embedding |-> <<cur[w], i>>])]
            /\ Goes(w, IF i = Len(chunks[w]) THEN "persist" ELSE "embed")
            /\ UNCHANGED <<chunks, pos>>
  /\ UNCHANGED <<qvars, batch, cur, tx, cvars, store, files>>

(***************************************************************************)
(* _persist_document and the table publication_vectors.                    *)
(***************************************************************************)
\* the tuple of values of the INSERT statement, lines 226-235
RowZeroBased(key, publication_id, metadata, chunk, now) ==
  [key |-> key, publication_id |-> publication_id, metadata |-> metadata,
   vector |-> chunk.embedding, chunk_index |-> chunk.chunk_index - 1,
   chunk_text |-> _sanitize_text(chunk.chunk_text),
   created_at |-> now, updated_at |-> now]

Row(key, publication_id, metadata, chunk, now) ==
  [key |-> key, publication_id |-> publication_id, metadata |-> metadata,
   vector |-> chunk.embedding, chunk_index |-> chunk.chunk_index,
   chunk_text |-> _sanitize_text(chunk.chunk_text),
   created_at |-> now, updated_at |-> now]

SameSlot(r1, r2) == r1.key = r2.key /\ r1.chunk_index = r2.chunk_index

\* cur.execute inside the connection's transaction: the row is held in the
\* transaction and reaches the table at commit
ExecuteAutocommit(committed, pending, row) ==
  [store |-> committed \cup {row}, tx |-> pending]

Execute(committed, pending, row) ==
  [store |-> committed, tx |-> pending \cup {row}]

\* leaving "with psycopg.connect(...) as conn" through an exception
Rollback(w) == tx' = [tx EXCEPT ![w] = {}]

\* lines 209-218: open the connection
PersistConnect(w) ==
  /\ pc[w] = "persist"
  /\ \/ Raises(w, "OperationalError")
     \/ Goes(w, "insert") /\ UNCHANGED <<chunks, payloads, pos>>
  /\ UNCHANGED <<qvars, batch, cur, tx, cvars, store, files>>

\* lines 220-236: one INSERT per chunk payload
Insert(w) ==
  /\ pc[w] = "insert"
  /\ pos[w] < Len(payloads[w])
  /\ LET d == cur[w]
         row == Row(KeyOf(d), Get(PayloadOf(d), "publication_id"),
                    PayloadOf(d), payloads[w][pos[w] + 1], d)
     IN  \/ /\ Raises(w, "DatabaseError")
            /\ Rollback(w)
            /\ UNCHANGED store
         \/ /\ uniqueIndex
            /\ \E r \in store : SameSlot(r, row)
            /\ Raises(w, "UniqueViolation")
            /\ Rollback(w)
            /\ UNCHANGED store
         \/ /\ uniqueIndex => ~\E r \in store : SameSlot(r, row)
            \* a conflicting uncommitted row of another transaction blocks
            /\ uniqueIndex =>
                 ~\E v \in Workers \ {w} : \E r \in tx[v] : SameSlot(r, row)
            /\ LET after == Execute(store, tx[w], row)
               IN  /\ store' = after.store
                   /\ tx' = [tx EXCEPT ![w] = after.tx]
            /\ pos' = [pos EXCEPT ![w] = @ + 1]
            /\ UNCHANGED <<pc, processed, gvars, chunks, payloads>>
  /\ UNCHANGED <<qvars, batch, cur, cvars, files>>

\* leaving the with block normally commits the transaction
Commit(w) ==
  /\ pc[w] = "insert"
  /\ pos[w] = Len(payloads[w])
  /\ \/ /\ Raises(w, "OperationalError")
        /\ UNCHANGED store
     \/ /\ store' = store \cup tx[w]
        /\ pc' = [pc EXCEPT ![w] = "cleanup"]
        /\ log' = [log EXCEPT ![w] = @ \cup {"persisted"}]
        /\ UNCHANGED <<processed, ack, status, chunks, payloads, pos>>
  /\ tx' = [tx EXCEPT ![w] = {}]
  /\ UNCHANGED <<qvars, batch, cur, cvars, files>>

\* lines 70-71: remove the temporary file and return
Cleanup(w) ==
  /\ pc[w] = "cleanup"
  /\ files' = files \ {cur[w]}
  /\ Returns(w, "done")
  /\ UNCHANGED <<qvars, batch, cur, tx, cvars, store>>

(***************************************************************************)
(* The finally block of main and FIFOQueue.delete_message.                 *)
(***************************************************************************)
AfterFinally(w) == IF pc[w] = "unwind" THEN "exited" ELSE "for"

\* "except self._client.exceptions.InvalidParameterValue": the expired
\* receipt handle is logged and the method returns to where its caller goes on
OnExpiredRaise(goes_on) == "crashed"

OnExpired(goes_on) == goes_on

Finally(w) ==
  /\ pc[w] \in {"finally", "unwind"}
  /\ LET d == cur[w]
         m == deliveryMsg[d]
     IN  IF ShouldDelete(processed[w], d)
           THEN \/ \* the receipt handle is valid: the message is removed
                   /\ lease[m] = d
                   /\ msgState' = [msgState EXCEPT ![m] = "deleted"]
                   /\ lease' = [lease EXCEPT ![m] = 0]
                   /\ ack' = [ack EXCEPT ![w] = "deleted"]
                   /\ log' = [log EXCEPT ![w] = @ \cup {"deleted"}]
                   /\ pc' = [pc EXCEPT ![w] = AfterFinally(w)]
                \/ \* InvalidParameterValue: the receipt handle has expired
                   /\ lease[m] # d
                   /\ ack' = [ack EXCEPT ![w] = "expired"]
                   /\ log' = [log EXCEPT ![w] = @ \cup {"expired"}]
                   /\ pc' = [pc EXCEPT ![w] = OnExpired(AfterFinally(w))]
                   /\ UNCHANGED <<msgState, lease>>
                \/ \* any other client error leaves delete_message and main
                   /\ ack' = [ack EXCEPT ![w] = "error"]
                   /\ pc' = [pc EXCEPT ![w] = "crashed"]
                   /\ UNCHANGED <<msgState, lease, log>>
           ELSE /\ pc' = [pc EXCEPT ![w] = AfterFinally(w)]
                /\ UNCHANGED <<ack, msgState, lease, log>>
  /\ UNCHANGED <<bodies, deliveryMsg, batch, cur, processed, chunks, payloads,
                 pos, tx, status, cvars, store, files>>

(***************************************************************************)
(* KeyboardInterrupt.  It is not an Exception, so the except clause of     *)
(* the message loop does not catch it: the finally block runs and the      *)
(* interrupt leaves the while loop.                                        *)
(***************************************************************************)
InMessage == {"decode", "gate", "download", "ensure_pdf", "extract", "embed",
              "persist", "insert", "cleanup"}

Interrupt(w) ==
  /\ \/ /\ pc[w] \in {"poll", "sleep", "for"}
        /\ pc' = [pc EXCEPT ![w] = "exited"]
        /\ UNCHANGED status
     \/ /\ pc[w] \in InMessage
        /\ pc' = [pc EXCEPT ![w] = "unwind"]
        /\ status' = [status EXCEPT ![w] = "interrupted"]
     \/ \* after process_message returned, before the finally block
        /\ pc[w] = "finally"
        /\ pc' = [pc EXCEPT ![w] = "unwind"]
        /\ UNCHANGED status
     \/ \* inside the finally block, before delete_message is called
        /\ pc[w] = "finally"
        /\ pc' = [pc EXCEPT ![w] = "exited"]
        /\ UNCHANGED status
  /\ Rollback(w)
  /\ chunks' = [chunks EXCEPT ![w] = << >>]
  /\ payloads' = [payloads EXCEPT ![w] = << >>]
  /\ pos' = [pos EXCEPT ![w] = 0]
  /\ UNCHANGED <<qvars, batch, cur, processed, ack, log, cvars, store, files>>

Next ==
  \/ \E m \in Messages : Expire(m)
  \/ \E w \in Workers :
       \/ Receive(w)
       \/ ReceiveEmpty(w)
       \/ Sleep(w)
       \/ ReceiveTransportError(w)
       \/ NextMessage(w)
       \/ Decode(w)
       \/ Gate(w)
       \/ Download(w)
       \/ EnsurePdf(w)
       \/ Extract(w)
       \/ Embed(w)
       \/ PersistConnect(w)
       \/ Insert(w)
       \/ Commit(w)
       \/ Cleanup(w)
       \/ Finally(w)
       \/ Interrupt(w)

Spec == Init /\ [][Next]_vars

(***************************************************************************)
(* FIFOQueue.extend_visibility.  main does not call it; the specification  *)
(* SpecLease adds a worker that extends the lease of its message before    *)
(* an embedding call.                                                      *)
(***************************************************************************)
ExtendVisibility(w) ==
  /\ pc[w] = "embed"
  /\ LET d == cur[w]
         m == deliveryMsg[d]
     IN  \/ \* the receipt handle is valid: the timeout is extended
            /\ lease[m] = d
            /\ Goes(w, "extended")
            /\ UNCHANGED <<chunks, payloads, pos>>
         \/ \* InvalidParameterValue: the receipt handle has expired
            /\ lease[m] # d
            /\ Goes(w, OnExpired("extend_expired"))
            /\ UNCHANGED <<chunks, payloads, pos>>
         \/ \* any other client error leaves extend_visibility
            Raises(w, "ClientError")
  /\ UNCHANGED <<qvars, batch, cur, tx, cvars, store, files>>

\* extend_visibility has logged the outcome and returns
ExtendReturn(w) ==
  /\ pc[w] \in {"extended", "extend_expired"}
  /\ Goes(w, "embed")
  /\ UNCHANGED <<qvars, batch, cur, chunks, payloads, pos, tx, cvars, store,
                 files>>

NextLease ==
  \/ Next
  \/ \E w \in Workers : ExtendVisibility(w)
  \/ \E w \in Workers : ExtendReturn(w)

SpecLease == Init /\ [][NextLease]_vars

(***************************************************************************)
(* The worker loop left to run: no KeyboardInterrupt is sent.  A worker    *)
(* that can take a step takes one (the interpreter keeps running main),    *)
(* a poll made again and again while messages are visible returns some of  *)
(* them, and the visibility timeout of an in-flight message runs out       *)
(* unless the message is deleted first (the queue redelivers).             *)
(***************************************************************************)
Step(w) ==
  \/ Receive(w)
  \/ ReceiveEmpty(w)
  \/ Sleep(w)
  \/ ReceiveTransportError(w)
  \/ NextMessage(w)
  \/ Decode(w)
  \/ Gate(w)
  \/ Download(w)
  \/ EnsurePdf(w)
  \/ Extract(w)
  \/ Embed(w)
  \/ PersistConnect(w)
  \/ Insert(w)
  \/ Commit(w)
  \/ Cleanup(w)
  \/ Finally(w)

NextLive ==
  \/ \E m \in Messages : Expire(m)
  \/ \E w \in Workers : Step(w)

Fairness ==
  /\ \A w \in Workers : WF_vars(Step(w)) /\ SF_vars(Receive(w))
  /\ \A m \in Messages : WF_vars(Expire(m))

SpecLive == Init /\ [][NextLive]_vars /\ Fairness

(***************************************************************************)
(* One worker, followed through _extract_text_from_pdf step by step.  The  *)
(* other worker has exited.  The messages name PDF assets; GoodP names     *)
(* the document of GoodA from another bucket and with a publication_id.    *)
(***************************************************************************)
GoodP ==
  [json |-> TRUE,
   payload |-> [bucket |-> "c", key |-> "a.pdf", publication_id |-> "p"]]

InitSingle ==
  /\ bodies \in [Messages -> {GoodA, GoodE, GoodP}]
  /\ s3_bucket_name = ""
  /\ uniqueIndex \in BOOLEAN
  /\ msgState = [m \in Messages |-> "visible"]
  /\ lease = [m \in Messages |-> 0]
  /\ deliveryMsg = << >>
  /\ pc = [w \in Workers |-> IF w = 1 THEN "poll" ELSE "exited"]
  /\ batch = [w \in Workers |-> << >>]
  /\ cur = [w \in Workers |-> 0]
  /\ processed = [w \in Workers |-> FALSE]
  /\ chunks = [w \in Workers |-> << >>]
  /\ payloads = [w \in Workers |-> << >>]
  /\ pos = [w \in Workers |-> 0]
  /\ tx = [w \in Workers |-> {}]
  /\ store = {}
  /\ files = {}
  /\ status = [w \in Workers |-> "none"]
  /\ ack = [w \in Workers |-> "none"]
  /\ log = [w \in Workers |-> {}]
  /\ call = NoCall

\* an event is logged and the function goes on at label
Logs(w, event, label) ==
  /\ pc' = [pc EXCEPT ![w] = label]
  /\ log' = [log EXCEPT ![w] = @ \cup {event}]
  /\ UNCHANGED <<processed, status, ack, chunks, payloads, pos>>

\* a primary run that found no text is taken for a failure
ExtractPrimaryFallsOnEmpty(w) ==
  /\ pc[w] = "extract"
  /\ \/ Logs(w, "primary_unavailable", "fallback")
     \/ Logs(w, "primary_failed", "fallback")
     \/ Logs(w, "primary_done",
             IF Objects[KeyOf(cur[w])].text = << >> THEN "fallback" ELSE "chunk")
  /\ UNCHANGED <<qvars, batch, cur, tx, cvars, store, files>>

\* lines 166-174: the primary strategy (PyPDFLoader), when it was imported
ExtractPrimary(w) ==
  /\ pc[w] = "extract"
  /\ \/ \* PyPDFLoader is None: the optional dependency is not installed
        Logs(w, "primary_unavailable", "fallback")
     \/ \* PyPDFLoader(...) or loader.load() raises: logger.exception
        Logs(w, "primary_failed", "fallback")
     \/ \* the run completes and its text, empty or not, is returned
        Logs(w, "primary_done", "chunk")
  /\ UNCHANGED <<qvars, batch, cur, tx, cvars, store, files>>

\* line 175: "Falling back to pdfminer"
Fallback(w) ==
  /\ pc[w] = "fallback"
  /\ Logs(w, "fallback", "pdfminer")
  /\ UNCHANGED <<qvars, batch, cur, tx, cvars, store, files>>

\* lines 176-180: the secondary strategy; its error is logged and re-raised
Pdfminer(w) ==
  /\ pc[w] = "pdfminer"
  /\ \/ Raises(w, "ExtractionError")
     \/ Goes(w, "chunk") /\ UNCHANGED <<chunks, payloads, pos>>
  /\ UNCHANGED <<qvars, batch, cur, tx, cvars, store, files>>

\* _vectorize, lines 103-106, and lines 65-68 of process_message: chunk the
\* text; without chunks the file is removed and the call returns
ChunkText(w) ==
  /\ pc[w] = "chunk"
  /\ LET text == Objects[KeyOf(cur[w])].text
         cs == _chunk_text(text, ChunkSize)
     IN  IF cs = << >>
           THEN /\ files' = files \ {cur[w]}
                /\ Returns(w, "empty")
           ELSE /\ chunks' = [chunks EXCEPT ![w] = cs]
                /\ Goes(w, "embed")
                /\ UNCHANGED <<payloads, pos, files>>
  /\ UNCHANGED <<qvars, batch, cur, tx, cvars, store>>

NextSingle ==
  \/ \E m \in Messages : Expire(m)
  \/ \E w \in Workers :
       \/ Receive(w)
       \/ ReceiveEmpty(w)
       \/ Sleep(w)
       \/ ReceiveTransportError(w)
       \/ NextMessage(w)
       \/ Decode(w)
       \/ Gate(w)
       \/ Download(w)
       \/ EnsurePdf(w)
       \/ ExtractPrimary(w)
       \/ Fallback(w)
       \/ Pdfminer(w)
       \/ ChunkText(w)
       \/ Embed(w)
       \/ PersistConnect(w)
       \/ Insert(w)
       \/ Commit(w)
       \/ Cleanup(w)
       \/ Finally(w)

SpecSingle == InitSingle /\ [][NextSingle]_vars

(***************************************************************************)
(* The helper functions, called on their own: SpecPure applies each of     *)
(* them to every argument within the bounds and keeps the result in call.  *)
(***************************************************************************)
MaxTextLen == 4   \* longest text given to _chunk_text
MaxChunk == 3     \* largest chunk_size given to _chunk_text
MaxVecs == 3      \* most vectors given to _average_embeddings
MaxVecLen == 2    \* longest vector given to _average_embeddings
MaxPrefixLen == 2 \* longest prefix given to apply_s3_prefix
MaxKeyLen == 3    \* longest key given to apply_s3_prefix

\* the sequences over S of length at most n
SeqsUpTo(S, n) == UNION {[1..k -> S] : k \in 0..n}

Texts == SeqsUpTo({"a", "b"}, MaxTextLen)
Vectors == SeqsUpTo({1, 2}, MaxVecLen)
Strings(n) == SeqsUpTo({Slash, "u", "f"}, n)

InitPure ==
  /\ Init
  /\ bodies = [m \in Messages |-> GoodA]
  /\ uniqueIndex

pvars == <<s3_bucket_name, uniqueIndex, bodies, msgState, lease, deliveryMsg,
           pc, batch, cur, processed, chunks, payloads, pos, tx, store, files,
           status, ack, log>>

CallChunkText ==
  /\ call = NoCall
  /\ \E text \in Texts, chunk_size \in 1..MaxChunk :
       call' = [fn |-> "_chunk_text", text |-> text, chunk_size |-> chunk_size,
                result |-> _chunk_text(text, chunk_size)]
  /\ UNCHANGED pvars

CallAverageEmbeddings ==
  /\ call = NoCall
  /\ \E embeddings \in SeqsUpTo(Vectors, MaxVecs) :
       call' = [fn |-> "_average_embeddings", embeddings |-> embeddings,
                result |-> _average_embeddings(embeddings)]
  /\ UNCHANGED pvars

CallApplyS3Prefix ==
  /\ call = NoCall
  /\ \E prefix \in Strings(MaxPrefixLen), key \in Strings(MaxKeyLen) :
       call' = [fn |-> "apply_s3_prefix", prefix |-> prefix, key |-> key,
                result |-> apply_s3_prefix(prefix, key)]
  /\ UNCHANGED pvars

NextPure ==
  \/ CallChunkText
  \/ CallAverageEmbeddings
  \/ CallApplyS3Prefix

SpecPure == InitPure /\ [][NextPure]_vars

(***************************************************************************)
(* Properties.                                                             *)
(***************************************************************************)
Failed == {"raised", "conflict"}
BetweenMessages == {"for", "poll", "sleep"}

\* the committed rows written by the run of delivery d
RowsOf(d) == {r \in store : r.created_at = d}

\* the committed rows of a document key
HasRows(key) == \E r \in store : r.key = key

\* the chunks a run over delivery d has to persist
ChunksOf(d) == _chunk_text(Objects[KeyOf(d)].text, ChunkSize)

\* C1: a message that was not skipped and yielded chunks is acknowledged
\* (delete_message called) only once all rows of its run are committed.
C1_AckAfterPersist ==
  \A w \in Workers :
    (ack[w] # "none" /\ status[w] \notin {"skipped", "missing", "empty"}) =>
      /\ status[w] = "done"
      /\ "persisted" \in log[w]
      /\ Cardinality(RowsOf(cur[w])) = Len(ChunksOf(cur[w]))

C1_Witness ==
  \E w \in Workers :
    /\ ack[w] = "deleted"
    /\ status[w] = "done"
    /\ Cardinality(RowsOf(cur[w])) = 2

\* C2: when process_message raised an error for a delivery, delete_message
\* is never called for that delivery.
C2_ErrorNotAcked ==
  \A w \in Workers :
    status[w] \in Failed => (ack[w] = "none" /\ "deleted" \notin log[w])

C2_Witness ==
  \E w \in Workers :
    /\ pc[w] \in BetweenMessages
    /\ status[w] = "raised"
    /\ ack[w] = "none"
    /\ msgState[deliveryMsg[cur[w]]] # "deleted"

\* C3: once processing of a message has ended, by return or by error, the
\* temporary file made for it no longer exists.
C3_TempFileRemoved ==
  \A w \in Workers :
    status[w] \in {"missing", "skipped", "empty", "done"} \cup Failed =>
      cur[w] \notin files

\* C4: a message whose body has no usable bucket or no usable key is logged
\* and never acknowledged.
C4_MissingNotAcked ==
  \A w \in Workers :
    status[w] = "missing" => ("missing" \in log[w] /\ ack[w] = "none")

\* C5: persisting a key that already has rows succeeds and replaces them:
\* a persist never fails on the conflict, and after each commit the rows of
\* the key are the rows of the committing run, one per chunk index.
C5_UpsertOnRepersist ==
  [][\A w \in Workers :
       pc[w] = "insert" =>
         /\ status'[w] # "conflict"
         /\ pc'[w] = "cleanup" =>
              \A r \in store' :
                r.key = KeyOf(cur[w]) => r.created_at = cur[w]]_vars

\* C6: with two workers on duplicate deliveries, the table never holds two
\* rows for one (key, chunk_index) and no worker ends in a persistence
\* error caused by the other's rows.
C6_OneRowPerSlot ==
  /\ \A r1, r2 \in store : SameSlot(r1, r2) => r1 = r2
  /\ \A w \in Workers : status[w] # "conflict"

\* C7: a delivery whose key already has committed rows when the gate is
\* asked is skipped without any write, leaves the rows of the earlier run
\* as they are, and is acknowledged.
C7_SecondRunSkipped ==
  /\ [][\A w \in Workers :
          ( /\ pc[w] = "gate"
            /\ pc'[w] # "gate"
            /\ HasRows(KeyOf(cur[w]))
            /\ status'[w] \notin {"raised", "interrupted"} ) =>
            /\ status'[w] = "skipped"
            /\ store' = store
            /\ files' = files]_vars
  /\ [](\A w \in Workers :
          status[w] = "skipped" =>
            /\ RowsOf(cur[w]) = {}
            /\ tx[w] = {}
            /\ HasRows(KeyOf(cur[w]))
            /\ pc[w] \in BetweenMessages => ack[w] \in {"deleted", "expired"})

C7_Witness ==
  \E w \in Workers :
    /\ status[w] = "skipped"
    /\ ack[w] = "deleted"
    /\ RowsOf(cur[w]) = {}
    /\ \E d \in 1..Len(deliveryMsg) :
         /\ d # cur[w]
         /\ KeyOf(d) = KeyOf(cur[w])
         /\ Cardinality(RowsOf(d)) = Len(ChunksOf(d))
         /\ store = RowsOf(d)

\* C8: in every state the table holds, of each run, either all rows of its
\* document (chunk indices 1..N) or none; a run that failed left none.
C8_NoPartialDocument ==
  /\ \A d \in 1..Len(deliveryMsg) :
       \/ RowsOf(d) = {}
       \/ /\ {r.chunk_index : r \in RowsOf(d)} = 1..Len(ChunksOf(d))
          /\ Cardinality(RowsOf(d)) = Len(ChunksOf(d))
  /\ \A w \in Workers : status[w] \in Failed => RowsOf(cur[w]) = {}

\* a run is between its first and its last INSERT: nothing of it is visible
C8_Witness ==
  \E w \in Workers :
    /\ pc[w] = "insert"
    /\ pos[w] >= 1
    /\ pos[w] < Len(payloads[w])
    /\ tx[w] # {}
    /\ RowsOf(cur[w]) = {}

\* C9: a transport error of the queue never terminates a worker.
C9_TransportErrorSurvived == \A w \in Workers : pc[w] # "crashed"

\* C10: the loop exits only between messages: when a worker has exited, the
\* message it handled last ran to its end (returned and acknowledged, or
\* failed and not acknowledged).
C10_ExitBetweenMessages ==
  \A w \in Workers :
    pc[w] = "exited" =>
      /\ status[w] # "interrupted"
      /\ status[w] \in {"skipped", "empty", "done"} => ack[w] # "none"

\* C11: an error on one message of a batch does not end the loop and does
\* not keep the rest of the batch from being handled: the messages of a
\* batch are taken one at a time, in order, and after a failed message the
\* worker is back at the head of the for loop with the rest of the batch.
C11_BatchGoesOn ==
  /\ [][\A w \in Workers :
          (status[w] = "pending" /\ status'[w] \in Failed) =>
            pc'[w] = "finally"]_vars
  /\ [][\A w \in Workers :
          ( /\ pc[w] = "finally"
            /\ status[w] \in Failed
            /\ pc'[w] \notin {"finally", "unwind", "exited"} ) =>
            /\ pc'[w] = "for"
            /\ batch'[w] = batch[w]]_vars
  /\ [][\A w \in Workers :
          (pc[w] = "for" /\ pc'[w] \notin {"for", "exited"}) =>
            IF batch[w] = << >>
              THEN pc'[w] = "poll"
              ELSE /\ pc'[w] = "decode"
                   /\ cur'[w] = Head(batch[w])
                   /\ batch'[w] = Tail(batch[w])]_vars

\* the first message of a batch of two has failed, the second is up next
C11_Witness ==
  \E w \in Workers :
    /\ pc[w] = "for"
    /\ status[w] \in Failed
    /\ batch[w] # << >>
    /\ Head(batch[w]) = cur[w] + 1

\* C12: a message whose key the gate finds in the table is skipped and
\* acknowledged, and nothing was done for it: no temporary file, no chunk,
\* no embedding, no row inserted or committed.
C12_SkippedDoesNothing ==
  \A w \in Workers :
    status[w] = "skipped" =>
      /\ processed[w]
      /\ cur[w] \notin files
      /\ chunks[w] = << >>
      /\ payloads[w] = << >>
      /\ \A r \in store \cup tx[w] : r.created_at # cur[w]
      /\ "persisted" \notin log[w]
      /\ pc[w] \in BetweenMessages => ack[w] \in {"deleted", "expired"}
      /\ pc[w] \in {"finally", "unwind"} => ack[w] = "none"

C12_Witness ==
  \E w \in Workers :
    /\ status[w] = "skipped"
    /\ pc[w] = "for"
    /\ ack[w] = "deleted"
    /\ msgState[deliveryMsg[cur[w]]] = "deleted"
    /\ cur[w] \notin files

\* the text of the asset of delivery d is empty
EmptyText(d) == Objects[KeyOf(d)].text = << >>

\* C13: when the asset yields no chunk, process_message ends without error
\* and without an embedding call or a row, the temporary file is removed
\* and the message is acknowledged.
C13_ZeroChunks ==
  /\ [][\A w \in Workers :
          ( /\ pc[w] = "extract"
            /\ EmptyText(cur[w])
            /\ pc'[w] \notin {"extract", "unwind"}
            /\ status'[w] \notin Failed ) =>
            /\ status'[w] = "empty"
            /\ pc'[w] = "finally"
            /\ processed'[w]
            /\ payloads'[w] = << >>
            /\ cur[w] \notin files'
            /\ store' = store]_vars
  /\ [](\A w \in Workers :
          status[w] = "empty" =>
            /\ cur[w] \notin files
            /\ RowsOf(cur[w]) = {}
            /\ tx[w] = {}
            /\ pc[w] \in BetweenMessages => ack[w] \in {"deleted", "expired"})

C13_Witness ==
  \E w \in Workers :
    /\ status[w] = "empty"
    /\ pc[w] = "for"
    /\ ack[w] = "deleted"
    /\ cur[w] \notin files
    /\ RowsOf(cur[w]) = {}

\* delivery d carries a body with a usable key
HasKey(d) ==
  /\ BodyOf(d).json
  /\ "key" \in DOMAIN PayloadOf(d)
  /\ KeyOf(d) \in DOMAIN Objects

\* the asset of delivery d does not begin with the PDF signature
NotPdf(d) ==
  \E i \in 1..Len(PdfMagic) :
    \/ i > Len(Objects[KeyOf(d)].header)
    \/ Objects[KeyOf(d)].header[i] # PdfMagic[i]

\* C15: the signature is checked before extraction: for an asset that is
\* not a PDF the check raises, no extraction or embedding step is ever
\* reached, no row is written and the message is not acknowledged.
C15_SignatureFirst ==
  /\ [][\A w \in Workers :
          ( /\ pc[w] = "ensure_pdf"
            /\ NotPdf(cur[w])
            /\ pc'[w] \notin {"ensure_pdf", "unwind"} ) =>
            /\ pc'[w] = "finally"
            /\ status'[w] = "raised"
            /\ ~processed'[w]
            /\ store' = store]_vars
  /\ [](\A w \in Workers :
          (cur[w] # 0 /\ HasKey(cur[w]) /\ NotPdf(cur[w])) =>
            /\ pc[w] \notin {"extract", "embed", "persist", "insert", "cleanup"}
            /\ chunks[w] = << >> /\ payloads[w] = << >>
            /\ RowsOf(cur[w]) = {} /\ tx[w] = {}
            /\ status[w] # "skipped" => ack[w] = "none")

C15_Witness ==
  \E w \in Workers :
    /\ cur[w] # 0 /\ HasKey(cur[w]) /\ NotPdf(cur[w])
    /\ cur[w] \in files
    /\ pc[w] = "for"
    /\ status[w] = "raised"
    /\ ack[w] = "none"
    /\ msgState[deliveryMsg[cur[w]]] # "deleted"

\* C14: a delete_message or extend_visibility call that finds the receipt
\* handle expired is logged and returns normally: the worker does not stop,
\* the committed rows stay, and the worker goes on (to the next message
\* after a delete, with the embedding after a lease extension).
C14_ExpiredHandleTolerated ==
  [][\A w \in Workers :
       /\ (ack[w] = "none" /\ ack'[w] = "expired") =>
            /\ pc'[w] \in {"for", "exited"}
            /\ pc[w] = "finally" => pc'[w] = "for"
            /\ "expired" \in log'[w]
            /\ batch'[w] = batch[w]
            /\ store' = store
       /\ ( /\ pc[w] = "embed"
            /\ lease[deliveryMsg[cur[w]]] # cur[w]
            /\ pc'[w] \notin {"embed", "persist", "finally", "unwind"} ) =>
            /\ pc'[w] = "extend_expired"
            /\ payloads'[w] = payloads[w]
            /\ store' = store
       /\ (pc[w] = "extend_expired" /\ pc'[w] # "extend_expired") =>
            /\ pc'[w] = "embed"
            /\ store' = store]_vars

\* one worker was told "expired" by delete_message after it committed its
\* rows, another by extend_visibility
C14_Witness ==
  \E w, v \in Workers :
    /\ ack[w] = "expired"
    /\ status[w] = "done"
    /\ pc[w] = "for"
    /\ Cardinality(RowsOf(cur[w])) = Len(ChunksOf(cur[w]))
    /\ pc[v] = "extend_expired"

\* a message process_message can complete: a JSON body with a key, a bucket
\* (its own or the fallback) and an asset that is a PDF
WellFormed(m) ==
  /\ bodies[m].json
  /\ Truthy(Get(bodies[m].payload, "key"))
  /\ Truthy(OrElse(Get(bodies[m].payload, "bucket"), s3_bucket_name))
  /\ bodies[m].payload.key \in DOMAIN Objects
  /\ SubSeq(Objects[bodies[m].payload.key].header, 1, Len(PdfMagic)) = PdfMagic

\* C16: with the worker loop left to run and unacknowledged messages
\* redelivered, every well-formed message is eventually acknowledged
\* (unless the deliveries the model follows are used up), and a well-formed
\* message is acknowledged only when the store holds rows of its document
\* key or the document was found to have zero chunks.
C16_EventuallyAcked ==
  /\ \A m \in Messages :
       WellFormed(m) =>
         <>(msgState[m] = "deleted" \/ Len(deliveryMsg) = MaxDeliveries)
  /\ [](\A w \in Workers :
          (ack[w] = "deleted" /\ WellFormed(deliveryMsg[cur[w]])) =>
            \/ HasRows(KeyOf(cur[w]))
            \/ status[w] = "empty")

\* the concatenation of a sequence of sequences
RECURSIVE Flatten(_)
Flatten(ss) == IF ss = << >> THEN << >> ELSE Head(ss) \o Flatten(Tail(ss))

\* C17: _chunk_text returns contiguous slices in order whose concatenation
\* is the text; all but the last have chunk_size characters, the last has
\* 1..chunk_size; there are ceil(len(text) / chunk_size) of them, and none
\* for the empty text.
C17_ChunkText ==
  call.fn = "_chunk_text" =>
    LET t == call.text
        n == call.chunk_size
        r == call.result
    IN  /\ Flatten(r) = t
        /\ \A i \in 1..(Len(r) - 1) : Len(r[i]) = n
        /\ r # << >> => Len(r[Len(r)]) \in 1..n
        /\ Len(r) = (Len(t) + n - 1) \div n
        /\ t = << >> => r = << >>

\* a text cut into full chunks and a shorter last one
C17_Witness ==
  /\ call.fn = "_chunk_text"
  /\ Len(call.text) = 4
  /\ call.chunk_size = 3
  /\ Len(call.result) = 2
  /\ Len(call.result[2]) = 1

\* the sum of the idx-th components of the vectors
RECURSIVE SumAt(_, _)
SumAt(embeddings, idx) ==
  IF embeddings = << >> THEN 0
  ELSE Head(embeddings)[idx] + SumAt(Tail(embeddings), idx)

SameLengths(embeddings) ==
  \A k \in 1..Len(embeddings) : Len(embeddings[k]) = Len(embeddings[1])

\* C18: _average_embeddings returns the empty vector for no vectors, the
\* element-wise mean for vectors of one length, and fails with the length
\* mismatch error when a vector's length differs from the first's.
C18_AverageEmbeddings ==
  call.fn = "_average_embeddings" =>
    LET e == call.embeddings
        r == call.result
    IN  IF e = << >> THEN r.ok /\ r.value = << >>
        ELSE IF SameLengths(e)
          THEN /\ r.ok
               /\ Len(r.value) = Len(e[1])
               /\ \A idx \in 1..Len(e[1]) :
                    r.value[idx].num * Len(e) = SumAt(e, idx) * r.value[idx].den
          ELSE ~r.ok

\* average([[1,2],[2,2],[2,1]]): three vectors of length two
C18_Witness ==
  /\ call.fn = "_average_embeddings"
  /\ call.embeddings = << <<1, 2>>, <<2, 2>>, <<2, 1>> >>
  /\ call.result.ok
  /\ call.result.value = << [num |-> 5, den |-> 3], [num |-> 5, den |-> 3] >>

\* C19: applying the prefix to a result of apply_s3_prefix changes nothing,
\* and a key that begins with the prefix and "/" is returned as it is.
C19_PrefixIdempotent ==
  call.fn = "apply_s3_prefix" =>
    /\ apply_s3_prefix(call.prefix, call.result) = call.result
    /\ ( /\ call.prefix # << >>
         /\ \A i \in 1..Len(call.prefix) : call.prefix[i] # Slash
         /\ StartsWith(call.key, call.prefix \o <<Slash>>) ) =>
         call.result = call.key

\* apply_s3_prefix("u", "u/f") = "u/f"
C19_Witness ==
  /\ call.fn = "apply_s3_prefix"
  /\ call.prefix = <<"u">>
  /\ call.key = <<"u", Slash, "f">>
  /\ call.result = <<"u", Slash, "f">>

\* C20, as claimed: with the empty prefix every key is returned unchanged,
\* also a key that begins with "/".
C20_EmptyPrefixUnchanged ==
  (call.fn = "apply_s3_prefix" /\ call.prefix = << >>) =>
    call.result = call.key

\* C20, amended: with the empty prefix the key is returned without its
\* leading "/" characters; a key that does not begin with "/" is returned
\* unchanged.
C20_EmptyPrefixStripsSlashes ==
  (call.fn = "apply_s3_prefix" /\ call.prefix = << >>) =>
    /\ \E n \in 0..Len(call.key) :
         /\ \A i \in 1..n : call.key[i] = Slash
         /\ call.result = SubSeq(call.key, n + 1, Len(call.key))
    /\ call.result # << >> => call.result[1] # Slash
    /\ (call.key = << >> \/ call.key[1] # Slash) => call.result = call.key

\* apply_s3_prefix("", "//f") = "f"
C20_Witness ==
  /\ call.fn = "apply_s3_prefix"
  /\ call.prefix = << >>
  /\ call.key = <<Slash, Slash, "f">>
  /\ call.result = <<"f">>

\* the vector the embedding call made on the i-th chunk of delivery d returns
EmbeddingOf(d, i) == <<d, i>>

\* the rows of the run over delivery d are N rows, numbered 1..N, and the
\* row numbered i holds text(i) and the vector of the call on chunk i
RowsMatch(d, N, text(_)) ==
  /\ Cardinality(RowsOf(d)) = N
  /\ \A i \in 1..N :
       \E r \in RowsOf(d) :
         /\ r.chunk_index = i
         /\ r.chunk_text = text(i)
         /\ r.vector = EmbeddingOf(d, i)

\* process_message has persisted the document of its message
Persisted(w) == pc[w] = "cleanup"

\* one embedding call was made per chunk, in chunk order
OneCallPerChunk(w) ==
  /\ Len(ChunksOf(cur[w])) >= 1
  /\ Len(payloads[w]) = Len(ChunksOf(cur[w]))
  /\ \A i \in 1..Len(payloads[w]) :
       /\ payloads[w][i].chunk_index = i
       /\ payloads[w][i].embedding = EmbeddingOf(cur[w], i)

C22_SecondaryOnlyAfterPrimaryFailure ==
  /\ [][\A w \in Workers :
          (pc[w] = "extract" /\ pc'[w] # "extract") =>
            IF "primary_done" \in log'[w]
              THEN pc'[w] = "chunk" /\ "fallback" \notin log'[w]
              ELSE /\ pc'[w] = "fallback"
                   /\ log'[w] \cap {"primary_unavailable", "primary_failed"} # {}]_vars
  /\ [][\A w \in Workers :
          (pc[w] = "fallback" /\ pc'[w] # "fallback") =>
            pc'[w] = "pdfminer" /\ "fallback" \in log'[w]]_vars
  /\ [](\A w \in Workers :
          "fallback" \in log[w] =>
            /\ "primary_done" \notin log[w]
            /\ log[w] \cap {"primary_unavailable", "primary_failed"} # {})
  /\ [][\A w \in Workers :
          (pc[w] = "pdfminer" /\ status'[w] \in Failed) =>
            pc'[w] = "finally" /\ ~processed'[w]]_vars
  /\ [](\A w \in Workers :
          ("fallback" \in log[w] /\ status[w] \in Failed) =>
            (ack[w] = "none" /\ "deleted" \notin log[w]))

\* both strategies failed on a PDF without text, and the message was left
\* in the queue
C22_Witness ==
  \E w \in Workers :
    /\ pc[w] \in BetweenMessages
    /\ status[w] = "raised"
    /\ BodyOf(cur[w]) = GoodE
    /\ {"primary_failed", "fallback", "failed"} \subseteq log[w]
    /\ ack[w] = "none"
    /\ msgState[deliveryMsg[cur[w]]] # "deleted"

\* the table holds rows of the key of delivery d that were stored for a
\* body with another bucket and another publication_id
StoredForOtherBody(d) ==
  \E r \in store :
    /\ r.key = KeyOf(d)
    /\ r.metadata.bucket # PayloadOf(d).bucket
    /\ r.publication_id # Get(PayloadOf(d), "publication_id")

\* C23: the gate knows a document by its key alone: a message whose key
\* has stored rows is skipped and acknowledged although its bucket and
\* publication_id differ from those of the rows, and the rows stay as they
\* are while the message is handled.
C23_GateByKeyAlone ==
  /\ [][\A w \in Workers :
          ( /\ pc[w] = "gate"
            /\ pc'[w] # "gate"
            /\ StoredForOtherBody(cur[w])
            /\ status'[w] # "raised" ) =>
            /\ status'[w] = "skipped"
            /\ pc'[w] = "finally"
            /\ processed'[w]]_vars
  /\ [][\A w \in Workers :
          (status[w] = "pending" /\ StoredForOtherBody(cur[w])) =>
            store' = store]_vars
  /\ [][\A w \in Workers : status'[w] = "skipped" => store' = store]_vars
  /\ [](\A w \in Workers :
          (status[w] = "skipped" /\ pc[w] \in BetweenMessages) =>
            ack[w] \in {"deleted", "expired"})

C23_Witness ==
  \E w \in Workers :
    /\ status[w] = "skipped"
    /\ pc[w] = "for"
    /\ ack[w] = "deleted"
    /\ msgState[deliveryMsg[cur[w]]] = "deleted"
    /\ StoredForOtherBody(cur[w])
    /\ \A r \in store : r.created_at # cur[w]

====
